---- MODULE Spec2Model ----
(***************************************************************************)
(* Model of the firehose tracing context (package firehose, Context):      *)
(* the block -> transaction -> call scope machine, the ordering counter,   *)
(* the call-index stack, the two printers and FlushTransaction.            *)
(*                                                                         *)
(* A Go method is an operator from a run state s to a run state:           *)
(*   s.nil    the receiver is the nil *Context (NoOpContext)               *)
(*   s.x      the fields of the Context                                    *)
(*   s.lines  the lines handed to ctx.printer so far by the running method *)
(*   s.fatal  "" or the message of the panic that stopped the method       *)
(*   s.ret    the string returned by the last helper that returns one      *)
(* A panic leaves the effects made before it (fields, printed lines).      *)
(* A line keeps the values handed to the encoders (Uint64, Addr, Hex ...), *)
(* in the fields tag, idx (call index), addr, a, b, s and ord (the         *)
(* ordering sequence number; -1 on a line that carries none).              *)
(***************************************************************************)
EXTENDS Integers, Sequences, FiniteSets

\* ------------------------------------------------------------------ bounds
\* outside the scripted scenario, operations are offered while they leave
\* totalOrderingCounter at or below
MaxOrd == 4
\* StartCall is offered while nextCallIndex is below
MaxCalls == 2
\* RecordLog is offered while blockLogIndex is below
MaxLogs == 2
\* gas amounts and balances are drawn from 0..MaxGas
MaxGas == 1
\* lines a buffering context accumulates before it must be flushed
MaxBuf == 2
\* lines written in all while speculative contexts are flushed into the sink
MaxSink == 3
\* transactions of the block StateProcessor.Process is given
MaxTxs == 1
\* times the flush lock is taken
MaxFlushes == 2
\* uint64 arithmetic is modelled modulo WordMod (stands for 2^64)
WordMod == 8

\* ------------------------------------------------------------ input sets
BlockNums == {1, 2}
Addrs == {"0x01", "0x02"}
GasVals == 0..MaxGas

\* reason tags (GasChangeReason / BalanceChangeReason values)
IgnoredGasChangeReason == "ignored"
FailedExecutionGasChangeReason == "failed_execution"
RefundAfterExecutionGasChangeReason == "refund_after_execution"
IgnoredBalanceChangeReason == "ignored"
GasReasons == {IgnoredGasChangeReason, "contract_creation"}
BalanceReasons == {IgnoredBalanceChangeReason, "transfer"}

\* ---------------------------------------------------------------- encoders
Digit(n) == <<"0", "1", "2", "3", "4", "5", "6", "7", "8", "9">>[n + 1]

\* strconv.FormatUint(n, 10)
RECURSIVE FormatUint(_)
FormatUint(n) == IF n < 10 THEN Digit(n) ELSE FormatUint(n \div 10) \o Digit(n % 10)

\* one line of the protocol
Line(tag, idx, addr, a, b, s, ord) ==
  [tag |-> tag, idx |-> idx, addr |-> addr, a |-> a, b |-> b, s |-> s, ord |-> ord]

\* tags of the lines that carry an ordering sequence number
OrderedTags ==
  {"BEGIN_APPLY_TRX", "END_APPLY_TRX", "EVM_RUN_CALL", "EVM_END_CALL", "GAS_CHANGE",
   "STORAGE_CHANGE", "BALANCE_CHANGE", "ADD_LOG", "CREATED_ACCOUNT", "CODE_CHANGE",
   "NONCE_CHANGE"}

\* ---------------------------------------------------------- ExtendedStack
Push(stack, v) == Append(stack, v)
StackEmpty(stack) == Len(stack) = 0
Peek(stack) == stack[Len(stack)]
Pop(stack) == SubSeq(stack, 1, Len(stack) - 1)

\* ------------------------------------------------------------- run states
Panic(s, msg) == [s EXCEPT !.fatal = msg]
printLine(s, line) == [s EXCEPT !.lines = Append(@, line)]
Stopped(s) == s.fatal # ""

\* ctx.totalOrderingCounter.Inc(): the counter after the increment
IncOrdering(s) == [s EXCEPT !.x.totalOrderingCounter = (@ + 1) % WordMod]

resetBlock(x) ==
  [x EXCEPT !.inBlock = FALSE, !.blockLogIndex = 0, !.totalOrderingCounter = 0]

\* resetTransaction that also zeroes the ordering counter
resetTransactionZeroesOrdering(x) ==
  [x EXCEPT !.inTransaction = FALSE,
            !.nextCallIndex = 0,
            !.activeCallIndex = "0",
            !.callIndexStack = Push(<<>>, "0"),
            !.totalOrderingCounter = 0]

\* resetTransaction that keeps the old call-index stack
resetTransactionKeepsStack(x) ==
  [x EXCEPT !.inTransaction = FALSE,
            !.nextCallIndex = 0,
            !.activeCallIndex = "0"]

resetTransaction(x) ==
  [x EXCEPT !.inTransaction = FALSE,
            !.nextCallIndex = 0,
            !.activeCallIndex = "0",
            !.callIndexStack = Push(<<>>, "0")]

NewContext ==
  resetTransaction(resetBlock(
    [seenBlock |-> FALSE, inBlock |-> FALSE, inTransaction |-> FALSE,
     totalOrderingCounter |-> 0, blockLogIndex |-> 0,
     activeCallIndex |-> "", nextCallIndex |-> 0, callIndexStack |-> <<>>]))

\* the run state of a method called on a context with fields x
Enter(isNil, x) == [nil |-> isNil, x |-> x, lines |-> <<>>, fatal |-> "", ret |-> ""]

NilDeref == "invalid memory address or nil pointer dereference"

InitVersion(s, version) ==
  IF Stopped(s) \/ s.nil THEN s
  ELSE printLine(s, Line("INIT", "", "", 0, 0, version, -1))

\* ---------------------------------------------------------- block methods
\* StartBlock that does not test whether a block is already open
StartBlockUnchecked(s, num) ==
  IF Stopped(s) THEN s
  ELSE IF s.nil THEN Panic(s, NilDeref)
  ELSE printLine([s EXCEPT !.x.inBlock = TRUE, !.x.seenBlock = TRUE],
             Line("BEGIN_BLOCK", "", "", num, 0, "", -1))

StartBlock(s, num) ==
  IF Stopped(s) THEN s
  ELSE IF s.nil THEN Panic(s, NilDeref)
  ELSE IF s.x.inBlock THEN Panic(s, "entering a block while already in a block scope")
  ELSE printLine([s EXCEPT !.x.inBlock = TRUE, !.x.seenBlock = TRUE],
             Line("BEGIN_BLOCK", "", "", num, 0, "", -1))

\* FinalizeBlock that insists on an open block
FinalizeBlockChecked(s, num) ==
  IF Stopped(s) THEN s
  ELSE IF s.nil THEN Panic(s, NilDeref)
  ELSE IF ~s.x.inBlock
    THEN Panic(s, "finalizing a block while not already within a block scope")
  ELSE printLine(s, Line("FINALIZE_BLOCK", "", "", num, 0, "", -1))

FinalizeBlock(s, num) ==
  IF Stopped(s) THEN s
  ELSE IF s.nil THEN Panic(s, NilDeref)
  ELSE printLine(s, Line("FINALIZE_BLOCK", "", "", num, 0, "", -1))

\* exitBlock that resets the block scope only
exitBlockKeepsTransaction(s) ==
  IF Stopped(s) THEN s
  ELSE IF ~s.x.inBlock
    THEN Panic(s, "exiting a block while not already within a block scope")
  ELSE [s EXCEPT !.x = resetBlock(@)]

\* exitBlock that does not test whether a block is open
exitBlockUnchecked(s) ==
  IF Stopped(s) THEN s
  ELSE [s EXCEPT !.x = resetTransaction(resetBlock(@))]

exitBlock(s) ==
  IF Stopped(s) THEN s
  ELSE IF ~s.x.inBlock
    THEN Panic(s, "exiting a block while not already within a block scope")
  ELSE [s EXCEPT !.x = resetTransaction(resetBlock(@))]

\* EndBlock that prints its line and leaves the scope open
EndBlockWithoutExit(s, num, td) ==
  IF Stopped(s) THEN s
  ELSE IF s.nil THEN Panic(s, NilDeref)
  ELSE printLine(s, Line("END_BLOCK", "", "", num, td, "", -1))

EndBlock(s, num, td) ==
  IF Stopped(s) THEN s
  ELSE IF s.nil THEN Panic(s, NilDeref)
  ELSE exitBlock(printLine(s, Line("END_BLOCK", "", "", num, td, "", -1)))

\* CancelBlock that resets the block and transaction state whether or not a
\* block is open
CancelBlockAlwaysResets(s, num, err) ==
  IF Stopped(s) \/ s.nil THEN s
  ELSE printLine([s EXCEPT !.x = resetTransaction(resetBlock(@))],
                 Line("CANCEL_BLOCK", "", "", num, 0, err, -1))

\* CancelBlock that never leaves the block scope
CancelBlockWithoutExit(s, num, err) ==
  IF Stopped(s) \/ s.nil THEN s
  ELSE printLine(s, Line("CANCEL_BLOCK", "", "", num, 0, err, -1))

CancelBlock(s, num, err) ==
  IF Stopped(s) \/ s.nil THEN s
  ELSE LET t == IF s.x.inBlock THEN exitBlock(s) ELSE s
       IN  IF Stopped(t) THEN t
           ELSE printLine(t, Line("CANCEL_BLOCK", "", "", num, 0, err, -1))

\* ---------------------------------------------------- transaction methods
StartTransactionRaw(s, hash, to, txIndex) ==
  IF Stopped(s) \/ s.nil THEN s
  ELSE IF s.x.inTransaction
    THEN Panic(s, "entering a transaction while already in a transaction scope")
  ELSE LET t == IncOrdering([s EXCEPT !.x.inTransaction = TRUE])
       IN  printLine(t, Line("BEGIN_APPLY_TRX", "", to, txIndex, 0, hash,
                         t.x.totalOrderingCounter))

StartTransaction(s, hash, to, txIndex) ==
  IF Stopped(s) \/ s.nil THEN s
  ELSE StartTransactionRaw(s, hash, to, txIndex)

RecordTrxFrom(s, from) ==
  IF Stopped(s) \/ s.nil THEN s
  ELSE IF ~s.x.inTransaction
    THEN Panic(s, "the RecordTrxFrom should have been call within a transaction, something is deeply wrong")
  ELSE printLine(s, Line("TRX_FROM", "", from, 0, 0, "", -1))

Reset(s) ==
  IF Stopped(s) \/ s.nil THEN s
  ELSE [s EXCEPT !.x = resetTransaction(resetBlock(@))]

EndTransaction(s, gasUsed) ==
  IF Stopped(s) \/ s.nil THEN s
  ELSE IF ~s.x.inTransaction
    THEN Panic(s, "exiting a transaction while not already within a transaction scope")
  ELSE LET t == IncOrdering(s)
           u == printLine(t, Line("END_APPLY_TRX", "", "", gasUsed, 0, "",
                              t.x.totalOrderingCounter))
       IN  [u EXCEPT !.x = resetTransaction(@)]

\* ------------------------------------------------------------ call methods
\* openCall that formats nextCallIndex before incrementing it
openCallIndexBeforeIncrement(s) ==
  LET i == FormatUint(s.x.nextCallIndex)
  IN  [s EXCEPT !.x.nextCallIndex = (@ + 1) % WordMod,
                !.x.activeCallIndex = i,
                !.x.callIndexStack = Push(@, i),
                !.ret = i]

openCall(s) ==
  LET n == (s.x.nextCallIndex + 1) % WordMod
      i == FormatUint(n)
  IN  [s EXCEPT !.x.nextCallIndex = n,
                !.x.activeCallIndex = i,
                !.x.callIndexStack = Push(@, i),
                !.ret = i]

StartCall(s, callType) ==
  IF Stopped(s) \/ s.nil THEN s
  ELSE LET t == IncOrdering(openCall(s))
       IN  printLine(t, Line("EVM_RUN_CALL", t.ret, "", 0, 0, callType,
                             t.x.totalOrderingCounter))

callIndex(s) ==
  IF Stopped(s) THEN s
  ELSE IF ~s.x.inTransaction
    THEN Panic(s, "should have been call in a transaction, something is deeply wrong")
  ELSE [s EXCEPT !.ret = s.x.activeCallIndex]

\* closeCall that pops and peeks without the checks of MustPop and MustPeek
closeCallUnchecked(s) ==
  IF Stopped(s) THEN s
  ELSE LET previousIndex == IF StackEmpty(s.x.callIndexStack) THEN ""
                            ELSE Peek(s.x.callIndexStack)
           t == [s EXCEPT !.x.callIndexStack =
                            IF StackEmpty(@) THEN @ ELSE Pop(@)]
       IN  [t EXCEPT !.x.activeCallIndex =
                       IF StackEmpty(t.x.callIndexStack) THEN ""
                       ELSE Peek(t.x.callIndexStack),
                     !.ret = previousIndex]

\* closeCall that pops and leaves activeCallIndex as it was
closeCallKeepsActive(s) ==
  IF Stopped(s) THEN s
  ELSE IF StackEmpty(s.x.callIndexStack) THEN Panic(s, "pop from empty stack")
  ELSE LET previousIndex == Peek(s.x.callIndexStack)
           t == [s EXCEPT !.x.callIndexStack = Pop(@)]
       IN  IF StackEmpty(t.x.callIndexStack) THEN Panic(t, "peek from empty stack")
           ELSE [t EXCEPT !.ret = previousIndex]

\* MustPop, then MustPeek: each panics on an empty stack
closeCall(s) ==
  IF Stopped(s) THEN s
  ELSE IF StackEmpty(s.x.callIndexStack) THEN Panic(s, "pop from empty stack")
  ELSE LET previousIndex == Peek(s.x.callIndexStack)
           t == [s EXCEPT !.x.callIndexStack = Pop(@)]
       IN  IF StackEmpty(t.x.callIndexStack) THEN Panic(t, "peek from empty stack")
           ELSE [t EXCEPT !.x.activeCallIndex = Peek(t.x.callIndexStack),
                          !.ret = previousIndex]

\* the EVM_END_CALL line of EndCall and EndFailedCall
endCallLine(s, gasLeft, returnValue) ==
  LET t == closeCall(s)
      u == IncOrdering(t)
  IN  IF Stopped(t) THEN t
      ELSE printLine(u, Line("EVM_END_CALL", t.ret, "", gasLeft, 0, returnValue,
                             u.x.totalOrderingCounter))

EndCall(s, gasLeft, returnValue) ==
  IF Stopped(s) \/ s.nil THEN s
  ELSE endCallLine(s, gasLeft, returnValue)

\* a line that carries the active call index and no sequence number
plainRecord(s, tag, addr, a, b, str) ==
  IF Stopped(s) \/ s.nil THEN s
  ELSE LET t == callIndex(s)
       IN  IF Stopped(t) THEN t
           ELSE printLine(t, Line(tag, t.ret, addr, a, b, str, -1))

\* a line that carries the active call index and a fresh sequence number
orderedRecord(s, tag, addr, a, b, str) ==
  IF Stopped(s) \/ s.nil THEN s
  ELSE LET t == callIndex(s)
           u == IncOrdering(t)
       IN  IF Stopped(t) THEN t
           ELSE printLine(u, Line(tag, t.ret, addr, a, b, str, u.x.totalOrderingCounter))

RecordCallParams(s, callType, caller, callee, gasLimit) ==
  plainRecord(s, "EVM_PARAM", callee, gasLimit, 0, callType)

RecordCallWithoutCode(s) == plainRecord(s, "ACCOUNT_WITHOUT_CODE", "", 0, 0, "")

RecordCallFailed(s, gasLeft, reason) ==
  plainRecord(s, "EVM_CALL_FAILED", "", gasLeft, 0, reason)

RecordCallReverted(s) == plainRecord(s, "EVM_REVERTED", "", 0, 0, "")

RecordKeccak(s, hashOfdata) == plainRecord(s, "EVM_KECCAK", "", 0, 0, hashOfdata)

RecordGasRefund(s, gasOld, gasRefund) ==
  IF Stopped(s) \/ s.nil THEN s
  ELSE IF gasRefund # 0
    THEN orderedRecord(s, "GAS_CHANGE", "", gasOld, (gasOld + gasRefund) % WordMod,
                       RefundAfterExecutionGasChangeReason)
  ELSE s

\* RecordGasConsume that writes its line whatever the delta and the reason
RecordGasConsumeUnfiltered(s, gasOld, gasConsumed, reason) ==
  IF Stopped(s) \/ s.nil THEN s
  ELSE orderedRecord(s, "GAS_CHANGE", "", gasOld, (gasOld - gasConsumed) % WordMod,
                     reason)

RecordGasConsume(s, gasOld, gasConsumed, reason) ==
  IF Stopped(s) \/ s.nil THEN s
  ELSE IF gasConsumed # 0 /\ reason # IgnoredGasChangeReason
    THEN orderedRecord(s, "GAS_CHANGE", "", gasOld, (gasOld - gasConsumed) % WordMod,
                       reason)
  ELSE s

RecordStorageChange(s, addr, key, oldData, newData) ==
  orderedRecord(s, "STORAGE_CHANGE", addr, oldData, newData, key)

\* RecordBalanceChange that draws a sequence number before testing the reason
RecordBalanceChangeCountsIgnored(s, addr, oldBalance, newBalance, reason) ==
  IF Stopped(s) \/ s.nil THEN s
  ELSE IF reason # IgnoredBalanceChangeReason
    THEN orderedRecord(s, "BALANCE_CHANGE", addr, oldBalance, newBalance, reason)
  ELSE IncOrdering(s)

RecordBalanceChange(s, addr, oldBalance, newBalance, reason) ==
  IF Stopped(s) \/ s.nil THEN s
  ELSE IF reason # IgnoredBalanceChangeReason
    THEN orderedRecord(s, "BALANCE_CHANGE", addr, oldBalance, newBalance, reason)
  ELSE s

logIndexInBlock(s) ==
  [s EXCEPT !.ret = FormatUint(s.x.blockLogIndex),
            !.x.blockLogIndex = (@ + 1) % WordMod]

RecordLog(s, addr) ==
  IF Stopped(s) \/ s.nil THEN s
  ELSE LET t == callIndex(s)
           u == logIndexInBlock(t)
           v == IncOrdering(u)
       IN  IF Stopped(t) THEN t
           ELSE printLine(v, Line("ADD_LOG", t.ret, addr, 0, 0, u.ret,
                                  v.x.totalOrderingCounter))

\* RecordSuicide that writes the balance change whatever the balance
RecordSuicideAlwaysWithdraws(s, addr, suicided, balanceBeforeSuicide) ==
  IF Stopped(s) \/ s.nil THEN s
  ELSE LET t == plainRecord(s, "SUICIDE_CHANGE", addr, IF suicided THEN 1 ELSE 0,
                            balanceBeforeSuicide, "")
       IN  RecordBalanceChange(t, addr, balanceBeforeSuicide, 0, "suicide_withdraw")

RecordSuicide(s, addr, suicided, balanceBeforeSuicide) ==
  IF Stopped(s) \/ s.nil THEN s
  ELSE LET t == plainRecord(s, "SUICIDE_CHANGE", addr, IF suicided THEN 1 ELSE 0,
                            balanceBeforeSuicide, "")
       IN  IF balanceBeforeSuicide # 0
             THEN RecordBalanceChange(t, addr, balanceBeforeSuicide, 0, "suicide_withdraw")
           ELSE t

RecordNewAccount(s, addr) == orderedRecord(s, "CREATED_ACCOUNT", addr, 0, 0, "")

RecordCodeChange(s, addr, newCodeHash) ==
  orderedRecord(s, "CODE_CHANGE", addr, 0, 0, newCodeHash)

RecordNonceChange(s, addr, oldNonce, newNonce) ==
  orderedRecord(s, "NONCE_CHANGE", addr, oldNonce, newNonce, "")

\* EndFailedCall that reports 0 gas left on the reverted path too
EndFailedCallZeroesGas(s, gasLeft, reverted, reason) ==
  IF Stopped(s) \/ s.nil THEN s
  ELSE LET t == RecordCallFailed(s, gasLeft, reason)
           u == IF reverted THEN RecordCallReverted(t)
                ELSE RecordGasConsume(t, gasLeft, gasLeft, FailedExecutionGasChangeReason)
       IN  endCallLine(u, 0, "")

\* EndFailedCall that writes the full gas consumption on the reverted path too
EndFailedCallAlwaysConsumes(s, gasLeft, reverted, reason) ==
  IF Stopped(s) \/ s.nil THEN s
  ELSE LET t == RecordCallFailed(s, gasLeft, reason)
           u == IF reverted THEN RecordCallReverted(t) ELSE t
           v == RecordGasConsume(u, gasLeft, gasLeft, FailedExecutionGasChangeReason)
       IN  endCallLine(v, IF reverted THEN gasLeft ELSE 0, "")

EndFailedCall(s, gasLeft, reverted, reason) ==
  IF Stopped(s) \/ s.nil THEN s
  ELSE LET t == RecordCallFailed(s, gasLeft, reason)
           u == IF reverted THEN RecordCallReverted(t)
                ELSE RecordGasConsume(t, gasLeft, gasLeft, FailedExecutionGasChangeReason)
       IN  endCallLine(u, IF reverted THEN gasLeft ELSE 0, "")

\* ---------------------------------------------------------- mempool method
\* RecordTrxPool that reads the active call as the Record* methods do
RecordTrxPoolInCall(s, eventType, hash, from, to) ==
  IF Stopped(s) \/ s.nil THEN s
  ELSE IF ~s.x.inTransaction
    THEN Panic(s, "should have been call in a transaction, something is deeply wrong")
  ELSE printLine(s, Line(eventType, s.x.activeCallIndex, to, 0, 0, hash \o "/" \o from, -1))

RecordTrxPool(s, eventType, hash, from, to) ==
  IF Stopped(s) \/ s.nil THEN s
  ELSE printLine(s, Line(eventType, "", to, 0, 0, hash \o "/" \o from, -1))

\* ------------------------------------------------------------ genesis block
\* RecordGenesisBlock that leaves the root transaction to be closed by EndBlock
RecordGenesisBlockWithoutEndTransaction(s, num, alloc) ==
  IF Stopped(s) \/ s.nil THEN s
  ELSE IF s.x.inBlock
    THEN Panic(s, "trying to record genesis block while in block context")
  ELSE LET a == StartBlock(s, num)
           b == StartTransactionRaw(a, "0x00", "0x00", 0)
           c == RecordTrxFrom(b, "0x00")
           d == IF alloc THEN RecordNewAccount(c, "0x01") ELSE c
           f == FinalizeBlock(d, num)
       IN  EndBlock(f, num, 0)

\* alloc: whether the recordGenesisAlloc callback records an account
RecordGenesisBlock(s, num, alloc) ==
  IF Stopped(s) \/ s.nil THEN s
  ELSE IF s.x.inBlock
    THEN Panic(s, "trying to record genesis block while in block context")
  ELSE LET a == StartBlock(s, num)
           b == StartTransactionRaw(a, "0x00", "0x00", 0)
           c == RecordTrxFrom(b, "0x00")
           d == IF alloc THEN RecordNewAccount(c, "0x01") ELSE c
           e == EndTransaction(d, 0)
           f == FinalizeBlock(e, num)
       IN  EndBlock(f, num, 0)

\* the first test of FlushTransaction: it returns at once
\* FlushTransaction that tests only txContext
FlushSkippedOnNilTxContext(ctxNil, txContextNil) == txContextNil

FlushSkipped(ctxNil, txContextNil) == ctxNil \/ txContextNil

\* ---------------------------------------------------------------- drivers
\* ctx.Enabled()
Enabled(s) == ~s.nil

\* vmenv.Call run with the context as its tracer: the call it opens is closed
\* by EndCall, or by EndFailedCall when the call fails
vmCall(s, failed, gasLeft) ==
  LET t == StartCall(s, "CALL")
  IN  IF failed THEN EndFailedCall(t, gasLeft, FALSE, "execution failed")
      ELSE EndCall(t, gasLeft, "")

\* executeMsg (package congress); hashErr: rlp.Encode or sha.Read fails,
\* vmErr: vmenv.Call returns an error
executeMsg(s, hashErr, to, vmErr, gasLeft) ==
  IF Enabled(s) /\ hashErr THEN s
  ELSE LET a == IF Enabled(s)
                  THEN RecordTrxFrom(StartTransactionRaw(s, "0xE1", to, 0), "0x01")
                ELSE s
           b == vmCall(a, vmErr, gasLeft)
       IN  IF vmErr THEN b
           ELSE IF Enabled(b) THEN EndTransaction(b, gasLeft)
           ELSE b

\* ApplyMessage (package statefull)
ApplyMessage(s, to, vmErr, gasLeft) ==
  LET a == IF Enabled(s)
             THEN RecordTrxFrom(StartTransactionRaw(s, "0xE2", to, 0), "0x01")
           ELSE s
      b == vmCall(a, vmErr, gasLeft)
  IN  IF Enabled(b) THEN EndTransaction(b, gasLeft) ELSE b

\* the loop of StateProcessor.Process over n transactions, none skipped
RECURSIVE processTransactions(_, _)
processTransactions(s, n) ==
  IF n = 0 THEN s
  ELSE LET a == IF Enabled(s) THEN StartTransaction(s, "0xAA", "0x01", 0) ELSE s
           b == vmCall(a, FALSE, 0)
           c == IF Enabled(b) THEN EndTransaction(b, 0) ELSE b
       IN  processTransactions(c, n - 1)

\* StateProcessor.Process: dm is the context of MaybeSyncContext(), sync the one
\* of SyncContext(); the result is the run on the context that was written to
Process(dm, sync, blockProgressEnabled, num, n) ==
  IF Enabled(dm)
    THEN EndBlock(FinalizeBlock(processTransactions(StartBlock(dm, num), n), num), num, 100)
  ELSE IF blockProgressEnabled THEN FinalizeBlock(sync, num)
  ELSE sync

\* ================================================================== state
\* "sync" is the sync context (DelegateToWriterPrinter on stdout); "tx1" and
\* "tx2" are speculative execution contexts (ToBufferPrinter); "noop" is
\* NoOpContext, the nil *Context: ctxs["noop"] is never read by a method.
Ctx == {"sync", "tx1", "tx2", "noop"}
Buffering == {"tx1", "tx2"}
\* the goroutines that record into a buffering context and flush it
Flushers == {"t1", "t2"}
Own(t) == IF t = "t1" THEN "tx1" ELSE "tx2"

VARIABLES
  ctxs,         \* the fields of each Context
  buffer,       \* the buffer of each ToBufferPrinter, as lines
  sink,         \* stdout: every line written when hist, else the lines of the last operation
  sinkSrc,      \* for each line of sink: 0 (a direct print) or the ticket of the flush that wrote it
  hist,         \* whether sink keeps the whole stream
  flags,        \* the process-wide toggles Enabled, SyncInstrumentationEnabled, BlockProgressEnabled
  fatal,        \* "" or the panic that ended the process
  flushTxLock,  \* "" or the goroutine holding the sync context's flushTxLock
  pc,           \* where each flusher is in FlushTransaction
  snap,         \* v.buffer.String() of each flusher's running (or last) flush
  flushPos,     \* how many lines of snap the flusher has written
  ticket,       \* the rank in which each flusher took the flush lock (0: never)
  lockSeq,      \* how many times the flush lock was taken
  step,         \* the operations the scripted scenario has performed (-1: no script runs)
  last,         \* the last operation: its name and its context
  gBlock,       \* per context: a StartBlock occurred with no later EndBlock, CancelBlock or Reset
  gTrx,         \* per context: a StartTransaction occurred with no later EndTransaction, block exit or Reset
  gSeqs,        \* per context: the sequence numbers written since the open block started
  gCalls,       \* per context: the StartCalls accepted since the open transaction started
  gOpen,        \* per context: the call indexes written by the StartCalls not yet matched by an EndCall
  gLogs,        \* per context: the RecordLogs accepted since a block was last started or closed
  gPre          \* the scope flags the context of the last operation had before it

ctxVars == <<ctxs, buffer, sink, sinkSrc, fatal, last, gBlock, gTrx, gSeqs, gCalls, gOpen,
            gLogs, gPre>>
threadVars == <<flushTxLock, pc, snap, flushPos, ticket, lockSeq>>
vars == <<ctxs, buffer, sink, sinkSrc, hist, flags, fatal, flushTxLock, pc, snap, flushPos,
          ticket, lockSeq, step, last, gBlock, gTrx, gSeqs, gCalls, gOpen, gLogs, gPre>>

\* the sequence numbers carried by a sequence of lines
RECURSIVE Ords(_)
Ords(lines) ==
  IF lines = <<>> THEN <<>>
  ELSE (IF Head(lines).ord # -1 THEN <<Head(lines).ord>> ELSE <<>>) \o Ords(Tail(lines))

RECURSIVE Zeros(_)
Zeros(n) == IF n = 0 THEN <<>> ELSE <<0>> \o Zeros(n - 1)

Tags(lines) == [i \in 1..Len(lines) |-> lines[i].tag]

\* the run state of a method invoked on context c
Run(c) == Enter(c = "noop", ctxs[c])

\* the values of the toggles; FullSync: tracing of the block sync is on
Flags ==
  [Enabled : BOOLEAN, SyncInstrumentationEnabled : BOOLEAN, BlockProgressEnabled : BOOLEAN]

FullSync ==
  [Enabled |-> TRUE, SyncInstrumentationEnabled |-> TRUE, BlockProgressEnabled |-> FALSE]

\* the context MaybeSyncContext() returns
MaybeSyncContext ==
  IF ~flags.Enabled THEN "noop"
  ELSE IF ~flags.SyncInstrumentationEnabled THEN "noop"
  ELSE "sync"

SyncContext == "sync"

\* a direct printer writes to stdout, a buffering one appends to its buffer
WriteOut(c, lines) ==
  IF c \in Buffering
    THEN /\ buffer' = [buffer EXCEPT ![c] = @ \o lines]
         /\ sink' = IF hist THEN sink ELSE <<>>
         /\ sinkSrc' = IF hist THEN sinkSrc ELSE <<>>
    ELSE /\ buffer' = buffer
         /\ sink' = (IF hist THEN sink ELSE <<>>) \o lines
         /\ sinkSrc' = (IF hist THEN sinkSrc ELSE <<>>) \o Zeros(Len(lines))

\* the lines held by the sink and the buffers
Stored == Len(sink) + Len(buffer["tx1"]) + Len(buffer["tx2"])

\* what the bookkeeping variables become when operation op ends in run state r
Track(c, r, op) ==
  LET ok == r.fatal = "" /\ ~r.nil
      opens == ok /\ op = "StartBlock"
      closes == ok /\ (op \in {"EndBlock", "Reset", "FlushTransaction", "RecordGenesisBlock",
                                "Process"}
                       \/ (op = "CancelBlock" /\ gBlock[c]))
      cancels == ok /\ op = "CancelBlock"
      blk == IF opens THEN TRUE ELSE IF closes \/ cancels THEN FALSE ELSE gBlock[c]
      trx == IF ok /\ op \in {"StartTransaction", "StartTransactionRaw"} THEN TRUE
             ELSE IF closes \/ (ok /\ op = "EndTransaction") THEN FALSE
             ELSE gTrx[c]
  IN  /\ last' = [op |-> op, c |-> c]
      /\ gBlock' = [gBlock EXCEPT ![c] = blk]
      /\ gTrx' = [gTrx EXCEPT ![c] = trx]
      /\ gSeqs' = [gSeqs EXCEPT ![c] = IF opens \/ ~blk THEN <<>> ELSE @ \o Ords(r.lines)]
      /\ gCalls' = [gCalls EXCEPT ![c] =
                      IF ~trx \/ ~gTrx[c] THEN 0
                      ELSE IF ok /\ op = "StartCall" THEN @ + 1 ELSE @]
      /\ gLogs' = [gLogs EXCEPT ![c] =
                      IF opens \/ closes THEN 0
                      ELSE IF ok /\ op = "RecordLog" THEN @ + 1 ELSE @]
      /\ gPre' = [inBlock |-> ctxs[c].inBlock, inTransaction |-> ctxs[c].inTransaction]
      /\ gOpen' = [gOpen EXCEPT ![c] =
                      IF closes \/ (ok /\ op = "EndTransaction") THEN <<>>
                      ELSE IF ok /\ op = "StartCall"
                        THEN Append(@, r.lines[Len(r.lines)].idx)
                      ELSE IF ok /\ op \in {"EndCall", "EndFailedCall"} /\ @ # <<>>
                        THEN SubSeq(@, 1, Len(@) - 1)
                      ELSE @]

\* operation op, invoked on context c, ends in run state r
Do(c, r, op) ==
  /\ fatal = ""
  /\ step < 0 => r.x.totalOrderingCounter <= MaxOrd
  /\ r.x.nextCallIndex <= MaxCalls
  /\ r.x.blockLogIndex <= MaxLogs
  /\ (hist /\ step < 0) => Stored + Len(r.lines) <= MaxSink
  /\ c \in Buffering => Len(buffer[c]) + Len(r.lines) <= MaxBuf
  /\ ctxs' = [ctxs EXCEPT ![c] = r.x]
  /\ WriteOut(c, r.lines)
  /\ fatal' = r.fatal
  /\ Track(c, r, op)
  /\ step' = IF step < 0 THEN step ELSE step + 1
  /\ UNCHANGED <<hist, flags, threadVars>>

InitCommon ==
  /\ ctxs = [c \in Ctx |-> NewContext]
  /\ buffer = [c \in Ctx |-> <<>>]
  /\ sink = <<>>
  /\ sinkSrc = <<>>
  /\ fatal = ""
  /\ flushTxLock = ""
  /\ pc = [t \in Flushers |-> "run"]
  /\ snap = [t \in Flushers |-> <<>>]
  /\ flushPos = [t \in Flushers |-> 0]
  /\ ticket = [t \in Flushers |-> 0]
  /\ lockSeq = 0
  /\ last = [op |-> "NewContext", c |-> "sync"]
  /\ gBlock = [c \in Ctx |-> FALSE]
  /\ gTrx = [c \in Ctx |-> FALSE]
  /\ gSeqs = [c \in Ctx |-> <<>>]
  /\ gCalls = [c \in Ctx |-> 0]
  /\ gOpen = [c \in Ctx |-> <<>>]
  /\ gLogs = [c \in Ctx |-> 0]
  /\ gPre = [inBlock |-> FALSE, inTransaction |-> FALSE]

\* ---------------------------------------------------------------- actions
StartBlockA(c) == \E n \in BlockNums : Do(c, StartBlock(Run(c), n), "StartBlock")

FinalizeBlockA(c) == \E n \in BlockNums : Do(c, FinalizeBlock(Run(c), n), "FinalizeBlock")

EndBlockA(c) == \E n \in BlockNums : Do(c, EndBlock(Run(c), n, 100), "EndBlock")

CancelBlockA(c) == \E n \in BlockNums : Do(c, CancelBlock(Run(c), n, "invalid"), "CancelBlock")

StartTransactionA(c) ==
  \E to \in Addrs \cup {"."} : Do(c, StartTransaction(Run(c), "0xAA", to, 0), "StartTransaction")

StartTransactionRawA(c) ==
  \E to \in Addrs : Do(c, StartTransactionRaw(Run(c), "0xAA", to, 0), "StartTransactionRaw")

RecordTrxFromA(c) == \E a \in Addrs : Do(c, RecordTrxFrom(Run(c), a), "RecordTrxFrom")

EndTransactionA(c) == \E g \in GasVals : Do(c, EndTransaction(Run(c), g), "EndTransaction")

ResetA(c) == Do(c, Reset(Run(c)), "Reset")

StartCallA(c) == Do(c, StartCall(Run(c), "CALL"), "StartCall")

EndCallA(c) == \E g \in GasVals : Do(c, EndCall(Run(c), g, ""), "EndCall")

EndFailedCallA(c) ==
  \E g \in GasVals, reverted \in BOOLEAN :
    Do(c, EndFailedCall(Run(c), g, reverted, "out of gas"), "EndFailedCall")

RecordCallParamsA(c) ==
  \E a \in Addrs : Do(c, RecordCallParams(Run(c), "CALL", a, a, 0), "RecordCallParams")

RecordCallWithoutCodeA(c) == Do(c, RecordCallWithoutCode(Run(c)), "RecordCallWithoutCode")

RecordCallFailedA(c) ==
  \E g \in GasVals : Do(c, RecordCallFailed(Run(c), g, "out of gas"), "RecordCallFailed")

RecordCallRevertedA(c) == Do(c, RecordCallReverted(Run(c)), "RecordCallReverted")

RecordKeccakA(c) == Do(c, RecordKeccak(Run(c), "0xBB"), "RecordKeccak")

RecordGasRefundA(c) ==
  \E old \in GasVals, refund \in GasVals :
    Do(c, RecordGasRefund(Run(c), old, refund), "RecordGasRefund")

RecordGasConsumeA(c) ==
  \E old \in GasVals, consumed \in GasVals, reason \in GasReasons :
    Do(c, RecordGasConsume(Run(c), old, consumed, reason), "RecordGasConsume")

RecordStorageChangeA(c) ==
  \E a \in Addrs : Do(c, RecordStorageChange(Run(c), a, "0xCC", 0, 1), "RecordStorageChange")

RecordBalanceChangeA(c) ==
  \E a \in Addrs, old \in GasVals, reason \in BalanceReasons :
    Do(c, RecordBalanceChange(Run(c), a, old, 0, reason), "RecordBalanceChange")

RecordLogA(c) == \E a \in Addrs : Do(c, RecordLog(Run(c), a), "RecordLog")

RecordSuicideA(c) ==
  \E a \in Addrs, suicided \in BOOLEAN, bal \in GasVals :
    Do(c, RecordSuicide(Run(c), a, suicided, bal), "RecordSuicide")

RecordNewAccountA(c) == \E a \in Addrs : Do(c, RecordNewAccount(Run(c), a), "RecordNewAccount")

RecordCodeChangeA(c) ==
  \E a \in Addrs : Do(c, RecordCodeChange(Run(c), a, "0xDD"), "RecordCodeChange")

RecordNonceChangeA(c) ==
  \E a \in Addrs : Do(c, RecordNonceChange(Run(c), a, 0, 1), "RecordNonceChange")

RecordTrxPoolA(c) ==
  \E from \in Addrs \cup {"."} :
    Do(c, RecordTrxPool(Run(c), "TRX_ENTER_POOL", "0xAA", from, "."), "RecordTrxPool")

InitVersionA(c) == Do(c, InitVersion(Run(c), "2.0"), "InitVersion")

\* offered while the three sequence numbers it writes stay within MaxOrd
RecordGenesisBlockA(c) ==
  \E alloc \in BOOLEAN :
    /\ ctxs[c].totalOrderingCounter + 3 <= MaxOrd
    /\ Do(c, RecordGenesisBlock(Run(c), 0, alloc), "RecordGenesisBlock")

\* FlushTransaction(txContext) on the nil context, or with a nil txContext
FlushTransactionSkippedA(c, tx) ==
  /\ FlushSkipped(c = "noop", tx = "noop")
  /\ Do(c, Run(c), IF c = "noop" THEN "FlushTransaction" ELSE "FlushTransactionOfNil")

\* ------------------------------------------- the scope machine of one context
Init == InitCommon /\ hist = FALSE /\ step = -1 /\ flags = FullSync

Next ==
  \/ StartBlockA("sync")
  \/ FinalizeBlockA("sync")
  \/ EndBlockA("sync")
  \/ CancelBlockA("sync")
  \/ StartTransactionA("sync")
  \/ StartTransactionRawA("sync")
  \/ RecordTrxFromA("sync")
  \/ EndTransactionA("sync")
  \/ ResetA("sync")
  \/ StartCallA("sync")
  \/ EndCallA("sync")
  \/ EndFailedCallA("sync")
  \/ RecordCallParamsA("sync")
  \/ RecordCallWithoutCodeA("sync")
  \/ RecordCallFailedA("sync")
  \/ RecordCallRevertedA("sync")
  \/ RecordKeccakA("sync")
  \/ RecordGasRefundA("sync")
  \/ RecordGasConsumeA("sync")
  \/ RecordStorageChangeA("sync")
  \/ RecordBalanceChangeA("sync")
  \/ RecordLogA("sync")
  \/ RecordSuicideA("sync")
  \/ RecordNewAccountA("sync")
  \/ RecordCodeChangeA("sync")
  \/ RecordNonceChangeA("sync")
  \/ RecordTrxPoolA("sync")
  \/ InitVersionA("sync")
  \/ RecordGenesisBlockA("sync")

Spec == Init /\ [][Next]_vars

\* ------------------------------------------------- the scripted scenario
\* StartBlock, StartTransaction, RecordTrxFrom, StartCall, RecordStorageChange,
\* EndCall, EndTransaction, EndBlock on a freshly constructed context
InitScenario == InitCommon /\ hist = TRUE /\ step = 0 /\ flags = FullSync

NextScenario ==
  \/ step = 0 /\ StartBlockA("sync")
  \/ step = 1 /\ StartTransactionA("sync")
  \/ step = 2 /\ RecordTrxFromA("sync")
  \/ step = 3 /\ StartCallA("sync")
  \/ step = 4 /\ RecordStorageChangeA("sync")
  \/ step = 5 /\ EndCallA("sync")
  \/ step = 6 /\ EndTransactionA("sync")
  \/ step = 7 /\ EndBlockA("sync")

SpecScenario == InitScenario /\ [][NextScenario]_vars

\* ------------------------------------------------------ FlushTransaction
\* ctx.FlushTransaction(txContext) with ctx the sync context and txContext the
\* buffering context of goroutine t, in three steps: Lock; fmt.Print of the
\* buffered string, written to stdout one line at a time; then v.Reset(),
\* txContext.Reset() and the deferred Unlock.

\* ctx.flushTxLock.Lock() taken without waiting for the holder to release it
LockNotExclusive(t) == flushTxLock' = t

\* ctx.flushTxLock.Lock()
Lock(t) ==
  /\ flushTxLock = ""
  /\ flushTxLock' = t

FlushLock(t) ==
  /\ fatal = ""
  /\ pc[t] = "run"
  /\ lockSeq < MaxFlushes
  /\ Lock(t)
  /\ pc' = [pc EXCEPT ![t] = "write"]
  /\ snap' = [snap EXCEPT ![t] = buffer[Own(t)]]
  /\ flushPos' = [flushPos EXCEPT ![t] = 0]
  /\ lockSeq' = lockSeq + 1
  /\ ticket' = [ticket EXCEPT ![t] = lockSeq + 1]
  /\ UNCHANGED <<ctxVars, hist, flags, step>>

FlushWrite(t) ==
  /\ fatal = ""
  /\ pc[t] = "write"
  /\ flushPos[t] < Len(snap[t])
  /\ sink' = Append(sink, snap[t][flushPos[t] + 1])
  /\ sinkSrc' = Append(sinkSrc, ticket[t])
  /\ flushPos' = [flushPos EXCEPT ![t] = @ + 1]
  /\ UNCHANGED <<ctxs, buffer, fatal, last, gBlock, gTrx, gSeqs, gCalls, gOpen, gLogs, gPre, hist,
                 flags,
                 step, flushTxLock, pc, snap, ticket, lockSeq>>

\* ToBufferPrinter.Reset(): the buffer after it
bufferReset(b) == <<>>

\* FlushTransaction that returns without txContext.Reset()
FlushFinishWithoutReset(t) ==
  /\ fatal = ""
  /\ pc[t] = "write"
  /\ flushPos[t] = Len(snap[t])
  /\ buffer' = [buffer EXCEPT ![Own(t)] = bufferReset(@)]
  /\ Track(Own(t), Run(Own(t)), "FlushTransaction")
  /\ flushTxLock' = ""
  /\ pc' = [pc EXCEPT ![t] = "run"]
  /\ UNCHANGED <<ctxs, sink, sinkSrc, fatal, hist, flags, step, snap, flushPos, ticket,
                 lockSeq>>

FlushFinish(t) ==
  /\ fatal = ""
  /\ pc[t] = "write"
  /\ flushPos[t] = Len(snap[t])
  /\ buffer' = [buffer EXCEPT ![Own(t)] = bufferReset(@)]
  /\ ctxs' = [ctxs EXCEPT ![Own(t)] = Reset(Run(Own(t))).x]
  /\ Track(Own(t), Reset(Run(Own(t))), "FlushTransaction")
  /\ flushTxLock' = ""
  /\ pc' = [pc EXCEPT ![t] = "run"]
  /\ UNCHANGED <<sink, sinkSrc, fatal, hist, flags, step, snap, flushPos, ticket, lockSeq>>

\* ------------------------ speculative contexts flushed into the sync context
InitFlush == InitCommon /\ hist = TRUE /\ step = -1 /\ flags = FullSync

\* the transaction hash goroutine t records under
HashOf(t) == IF t = "t1" THEN "0xA1" ELSE "0xA2"

SyncStartBlock == Do("sync", StartBlock(Run("sync"), 1), "StartBlock")

SyncEndBlock == Do("sync", EndBlock(Run("sync"), 1, 100), "EndBlock")

TxStartBlock(t) ==
  pc[t] = "run" /\ Do(Own(t), StartBlock(Run(Own(t)), 1), "StartBlock")

TxStartTransactionRaw(t) ==
  /\ pc[t] = "run"
  /\ Do(Own(t), StartTransactionRaw(Run(Own(t)), HashOf(t), ".", 0), "StartTransactionRaw")

TxStartCall(t) ==
  pc[t] = "run" /\ Do(Own(t), StartCall(Run(Own(t)), "CALL"), "StartCall")

TxRecordLog(t) ==
  pc[t] = "run" /\ Do(Own(t), RecordLog(Run(Own(t)), "0x01"), "RecordLog")

NextFlush ==
  \/ SyncStartBlock
  \/ SyncEndBlock
  \/ \E t \in Flushers : TxStartBlock(t)
  \/ \E t \in Flushers : TxStartTransactionRaw(t)
  \/ \E t \in Flushers : TxStartCall(t)
  \/ \E t \in Flushers : TxRecordLog(t)
  \/ \E t \in Flushers : FlushLock(t)
  \/ \E t \in Flushers : FlushWrite(t)
  \/ \E t \in Flushers : FlushFinish(t)

SpecFlush == InitFlush /\ [][NextFlush]_vars

\* ------------------------------------- the disabled context beside the sync one
\* every public operation invoked on NoOpContext, in any order, while the sync
\* context goes through blocks and transactions
InitNoOp == InitCommon /\ hist = FALSE /\ step = -1 /\ flags = FullSync

NextNoOp ==
  \/ StartBlockA("noop")
  \/ FinalizeBlockA("noop")
  \/ EndBlockA("noop")
  \/ CancelBlockA("noop")
  \/ StartTransactionA("noop")
  \/ StartTransactionRawA("noop")
  \/ RecordTrxFromA("noop")
  \/ EndTransactionA("noop")
  \/ \E tx \in {"noop", "tx1"} : FlushTransactionSkippedA("noop", tx)
  \/ ResetA("noop")
  \/ StartCallA("noop")
  \/ EndCallA("noop")
  \/ EndFailedCallA("noop")
  \/ RecordCallParamsA("noop")
  \/ RecordCallWithoutCodeA("noop")
  \/ RecordCallFailedA("noop")
  \/ RecordCallRevertedA("noop")
  \/ RecordKeccakA("noop")
  \/ RecordGasRefundA("noop")
  \/ RecordGasConsumeA("noop")
  \/ RecordStorageChangeA("noop")
  \/ RecordBalanceChangeA("noop")
  \/ RecordLogA("noop")
  \/ RecordSuicideA("noop")
  \/ RecordNewAccountA("noop")
  \/ RecordCodeChangeA("noop")
  \/ RecordNonceChangeA("noop")
  \/ RecordTrxPoolA("noop")
  \/ InitVersionA("noop")
  \/ RecordGenesisBlockA("noop")
  \/ SyncStartBlock
  \/ StartTransactionRawA("sync")
  \/ EndTransactionA("sync")
  \/ SyncEndBlock
  \/ FlushTransactionSkippedA("sync", "noop")

SpecNoOp == InitNoOp /\ [][NextNoOp]_vars

\* ------------------------------------------------- the hosts of the tracer
\* the toggles are set once, at start; the hosts take their context from
\* MaybeSyncContext() and call StartBlock / EndBlock only on an enabled one
InitDrivers == InitCommon /\ hist = FALSE /\ step = -1 /\ flags \in Flags

DriverStartBlock ==
  /\ Enabled(Run(MaybeSyncContext))
  /\ StartBlockA(MaybeSyncContext)

DriverEndBlock ==
  /\ Enabled(Run(MaybeSyncContext))
  /\ EndBlockA(MaybeSyncContext)

\* no ordinal of the run exceeds the bound (the counter does not wrap)
WithinOrd(r) == \A i \in 1..Len(Ords(r.lines)) : Ords(r.lines)[i] <= MaxOrd

executeMsgA ==
  \E hashErr \in BOOLEAN, to \in Addrs, vmErr \in BOOLEAN, gasLeft \in GasVals :
    /\ WithinOrd(executeMsg(Run(MaybeSyncContext), hashErr, to, vmErr, gasLeft))
    /\ Do(MaybeSyncContext,
          executeMsg(Run(MaybeSyncContext), hashErr, to, vmErr, gasLeft), "executeMsg")

ApplyMessageA ==
  \E to \in Addrs, vmErr \in BOOLEAN, gasLeft \in GasVals :
    /\ WithinOrd(ApplyMessage(Run(MaybeSyncContext), to, vmErr, gasLeft))
    /\ Do(MaybeSyncContext, ApplyMessage(Run(MaybeSyncContext), to, vmErr, gasLeft),
          "ApplyMessage")

ProcessA ==
  \E num \in BlockNums, n \in 0..MaxTxs :
    /\ WithinOrd(Process(Run(MaybeSyncContext), Run(SyncContext), flags.BlockProgressEnabled,
                         num, n))
    /\ Do(SyncContext,
          Process(Run(MaybeSyncContext), Run(SyncContext), flags.BlockProgressEnabled, num, n),
          IF Enabled(Run(MaybeSyncContext)) THEN "Process"
          ELSE IF flags.BlockProgressEnabled THEN "ProcessBlockProgress"
          ELSE "ProcessDisabled")

NextDrivers ==
  \/ DriverStartBlock
  \/ executeMsgA
  \/ ApplyMessageA
  \/ DriverEndBlock
  \/ ProcessA

SpecDrivers == InitDrivers /\ [][NextDrivers]_vars

\* ------------------------- speculative contexts flushed into a disabled one
\* tracing is off: MaybeSyncContext() is the no-op context, and the buffering
\* contexts that recorded a transaction are handed to its FlushTransaction
InitDisabledFlush ==
  /\ InitCommon
  /\ hist = FALSE
  /\ step = -1
  /\ flags \in Flags
  /\ MaybeSyncContext = "noop"

TxEndCall(t) ==
  pc[t] = "run" /\ Do(Own(t), EndCall(Run(Own(t)), 0, ""), "EndCall")

\* ctx.FlushTransaction(txContext) with ctx the context of MaybeSyncContext():
\* the early return, else the lock taken through the nil receiver
FlushTransactionDisabledA(tx) ==
  /\ MaybeSyncContext = "noop"
  /\ IF FlushSkipped(~Enabled(Run(MaybeSyncContext)), tx = "noop")
       THEN Do(MaybeSyncContext, Run(MaybeSyncContext), "FlushTransaction")
     ELSE Do(MaybeSyncContext, Panic(Run(MaybeSyncContext), NilDeref), "FlushTransaction")

NextDisabledFlush ==
  \/ \E t \in Flushers : TxStartBlock(t)
  \/ \E t \in Flushers : TxStartTransactionRaw(t)
  \/ \E t \in Flushers : TxStartCall(t)
  \/ \E t \in Flushers : TxRecordLog(t)
  \/ \E t \in Flushers : TxEndCall(t)
  \/ \E tx \in Buffering \cup {"noop"} : FlushTransactionDisabledA(tx)

SpecDisabledFlush == InitDisabledFlush /\ [][NextDisabledFlush]_vars

\* ================================================================= claims

\* C1: after every call that did not fail fatally, inBlock is true exactly when
\* a StartBlock occurred with no later EndBlock, CancelBlock or Reset, and
\* inTransaction exactly when a StartTransaction occurred with no later
\* EndTransaction, block exit or Reset.
C1_FlagsTrackScope ==
  fatal = "" =>
    \A c \in Ctx : /\ ctxs[c].inBlock = gBlock[c]
                   /\ ctxs[c].inTransaction = gTrx[c]

\* a CancelBlock that closed no block left the open transaction open
C1_Witness ==
  /\ fatal = ""
  /\ last.op = "CancelBlock"
  /\ ctxs["sync"].inTransaction
  /\ gTrx["sync"]
  /\ ~ctxs["sync"].inBlock

\* C2: the scenario writes exactly the 8 lines BEGIN_BLOCK, BEGIN_APPLY_TRX,
\* TRX_FROM, EVM_RUN_CALL, STORAGE_CHANGE, EVM_END_CALL, END_APPLY_TRX,
\* END_BLOCK, in that order, and ends with the context idle.
C2_ScenarioLines ==
  step = 8 =>
    /\ fatal = ""
    /\ Tags(sink) = <<"BEGIN_BLOCK", "BEGIN_APPLY_TRX", "TRX_FROM", "EVM_RUN_CALL",
                      "STORAGE_CHANGE", "EVM_END_CALL", "END_APPLY_TRX", "END_BLOCK">>
    /\ ~ctxs["sync"].inBlock
    /\ ~ctxs["sync"].inTransaction

C2_Witness == step = 8 /\ last.op = "EndBlock" /\ Len(sink) = 8

\* C3: while a block stays open on a context, each ordering sequence number the
\* context writes exceeds the previous one by exactly 1, across transaction
\* boundaries too.
C3_OrderingStepsByOne ==
  \A c \in Ctx :
    \A i \in 1..(Len(gSeqs[c]) - 1) : gSeqs[c][i + 1] = gSeqs[c][i] + 1

\* a second transaction of the block has begun: BEGIN, END, BEGIN at least
C3_Witness ==
  /\ fatal = ""
  /\ last.op = "StartTransaction"
  /\ gBlock["sync"]
  /\ Len(gSeqs["sync"]) >= 3

\* C4: in every state reached immediately after a successful StartBlock the
\* ordering counter is 0.
C4_CounterZeroAfterStartBlock ==
  (fatal = "" /\ last.op = "StartBlock") => ctxs[last.c].totalOrderingCounter = 0

\* C5: while inTransaction is true the call-index stack has depth at least 1
\* and its bottom element is "0".
C5_StackRootedInTransaction ==
  \A c \in Ctx :
    (fatal = "" /\ ctxs[c].inTransaction) =>
      /\ Len(ctxs[c].callIndexStack) >= 1
      /\ ctxs[c].callIndexStack[1] = "0"

\* the last open call of a transaction was just closed
C5_Witness ==
  /\ fatal = ""
  /\ last.op \in {"EndCall", "EndFailedCall"}
  /\ ctxs["sync"].inTransaction
  /\ ctxs["sync"].nextCallIndex > 0
  /\ ctxs["sync"].callIndexStack = <<"0">>

\* C6, as claimed: immediately after EndTransaction and after Reset the
\* call-index stack has depth 0.
C6_DepthZeroAfterEnd ==
  (fatal = "" /\ last.op \in {"EndTransaction", "Reset"}) =>
    Len(ctxs[last.c].callIndexStack) = 0

\* C6, amended: immediately after EndTransaction and after Reset the call-index
\* stack has depth 1 and holds the root entry "0" alone.
C6_RootOnlyAfterEnd ==
  (fatal = "" /\ last.op \in {"EndTransaction", "Reset"}) =>
    ctxs[last.c].callIndexStack = <<"0">>

\* EndTransaction ended a transaction in which other ordered lines were written
C6_Witness ==
  /\ fatal = ""
  /\ last.op = "EndTransaction"
  /\ Len(sink) = 1
  /\ sink[1].tag = "END_APPLY_TRX"
  /\ sink[1].ord >= 3
  /\ ctxs["sync"].callIndexStack = <<"0">>

\* C7: within one transaction the k-th StartCall is assigned call index k.
C7_KthCallHasIndexK ==
  (fatal = "" /\ ~hist /\ last.op = "StartCall" /\ gTrx[last.c]) =>
    /\ Len(sink) = 1
    /\ sink[1].tag = "EVM_RUN_CALL"
    /\ sink[1].idx = FormatUint(gCalls[last.c])

\* the lines of the sink written by the flush that holds ticket k, in order
RECURSIVE FlushedBy(_, _, _)
FlushedBy(lines, srcs, k) ==
  IF lines = <<>> THEN <<>>
  ELSE (IF Head(srcs) = k THEN <<Head(lines)>> ELSE <<>>)
       \o FlushedBy(Tail(lines), Tail(srcs), k)

\* C8: FlushTransaction(other) appends to the shared sink exactly the bytes the
\* buffering context had accumulated, in order, and leaves it with an empty
\* buffer, inBlock and inTransaction false, blockLogIndex, totalOrderingCounter
\* and nextCallIndex 0, activeCallIndex "0" and call stack ["0"].
C8_FlushCopiesAndResets ==
  \A t \in Flushers :
    /\ pc[t] = "write" => snap[t] = buffer[Own(t)]
    /\ (fatal = "" /\ last = [op |-> "FlushTransaction", c |-> Own(t)]) =>
         /\ FlushedBy(sink, sinkSrc, ticket[t]) = snap[t]
         /\ buffer[Own(t)] = <<>>
         /\ ~ctxs[Own(t)].inBlock
         /\ ~ctxs[Own(t)].inTransaction
         /\ ctxs[Own(t)].blockLogIndex = 0
         /\ ctxs[Own(t)].totalOrderingCounter = 0
         /\ ctxs[Own(t)].nextCallIndex = 0
         /\ ctxs[Own(t)].activeCallIndex = "0"
         /\ ctxs[Own(t)].callIndexStack = <<"0">>

\* a context was flushed while its block and its transaction were open
C8_Witness ==
  /\ fatal = ""
  /\ last = [op |-> "FlushTransaction", c |-> "tx1"]
  /\ Tags(snap["t1"]) = <<"BEGIN_BLOCK", "BEGIN_APPLY_TRX">>
  /\ FlushedBy(sink, sinkSrc, ticket["t1"]) = snap["t1"]
  /\ ctxs["tx1"].seenBlock

\* C9: the lines of two concurrent flushes are never interleaved in the sink:
\* one buffer's lines come first, whole, then the other's, in the order in
\* which the flushers took the flush lock.
C9_FlushesNeverInterleave ==
  \A i, j \in 1..Len(sink) :
    (i < j /\ sinkSrc[i] # 0 /\ sinkSrc[j] # 0) => sinkSrc[i] <= sinkSrc[j]

\* two flushers went through the lock, the first with two lines
C9_Witness ==
  /\ fatal = ""
  /\ Len(FlushedBy(sink, sinkSrc, 1)) = 2
  /\ Len(FlushedBy(sink, sinkSrc, 2)) = 1
  /\ ticket["t1"] # 0
  /\ ticket["t2"] # 0

\* lines i and j of the sink belong to the same block of the sync context
SameBlock(i, j) ==
  /\ \E k \in 1..(i - 1) : sink[k].tag = "BEGIN_BLOCK" /\ sinkSrc[k] = 0
  /\ \A k \in i..j : sink[k].tag \notin {"BEGIN_BLOCK", "END_BLOCK", "CANCEL_BLOCK"}

\* C10: when transactions of a block are recorded in separate buffering contexts
\* and flushed into the sync context, no two ordering-sensitive lines of that
\* block in the sink carry the same sequence number.
C10_UniqueSeqInBlock ==
  hist =>
    \A i, j \in 1..Len(sink) :
      (/\ i < j
       /\ sinkSrc[i] # 0
       /\ sinkSrc[j] # 0
       /\ sink[i].tag \in OrderedTags
       /\ sink[j].tag \in OrderedTags
       /\ SameBlock(i, j)) => sink[i].ord # sink[j].ord

\* C11: a disabled (nil) context accepts every public operation, in any order,
\* with no line emitted and no failure.
C11_NoOpAcceptsAll ==
  last.c = "noop" =>
    /\ fatal = ""
    /\ sink = <<>>
    /\ \A c \in Buffering : buffer[c] = <<>>

\* C12: StartBlock on a context whose block scope is open is fatal, and
\* StartTransaction / StartTransactionRaw on a context whose transaction scope
\* is open is fatal; neither writes a line nor advances the ordering counter.
C12_DoubleStartFatal ==
  [][(/\ fatal = ""
      /\ last'.c = "sync"
      /\ \/ last'.op = "StartBlock" /\ ctxs["sync"].inBlock
         \/ /\ last'.op \in {"StartTransaction", "StartTransactionRaw"}
            /\ ctxs["sync"].inTransaction)
     => /\ fatal' # ""
        /\ sink' = <<>>
        /\ ctxs'["sync"].totalOrderingCounter = ctxs["sync"].totalOrderingCounter]_vars

\* a second StartBlock stopped the process while a transaction of the open
\* block had advanced the counter
C12_Witness ==
  /\ last = [op |-> "StartBlock", c |-> "sync"]
  /\ fatal = "entering a block while already in a block scope"
  /\ ctxs["sync"].inBlock
  /\ ctxs["sync"].totalOrderingCounter > 0
  /\ sink = <<>>

\* C13: EndBlock on an enabled context with no open block scope is fatal, and
\* EndTransaction with no open transaction scope is fatal, in every state
\* reachable by accepted operations.
C13_EndWithoutStartFatal ==
  [][(/\ fatal = ""
      /\ last'.c = "sync"
      /\ \/ last'.op = "EndBlock" /\ ~ctxs["sync"].inBlock
         \/ last'.op = "EndTransaction" /\ ~ctxs["sync"].inTransaction)
     => fatal' # ""]_vars

\* EndBlock stopped the process after a block had been started and ended
C13_Witness ==
  /\ last = [op |-> "EndBlock", c |-> "sync"]
  /\ fatal = "exiting a block while not already within a block scope"
  /\ ctxs["sync"].seenBlock
  /\ ~ctxs["sync"].inBlock

\* C14: CancelBlock on an enabled context with no open block scope writes
\* exactly one line, CANCEL_BLOCK, and leaves every field of the context
\* unchanged, including when a transaction scope is open.
C14_CancelWithoutBlockFrame ==
  [][(/\ fatal = ""
      /\ last' = [op |-> "CancelBlock", c |-> "sync"]
      /\ ~ctxs["sync"].inBlock)
     => /\ fatal' = ""
        /\ Tags(sink') = <<"CANCEL_BLOCK">>
        /\ ctxs'["sync"] = ctxs["sync"]]_vars

\* CancelBlock ran with no block open while a transaction and a call were
\* open and a log had been counted
C14_Witness ==
  /\ fatal = ""
  /\ last = [op |-> "CancelBlock", c |-> "sync"]
  /\ Tags(sink) = <<"CANCEL_BLOCK">>
  /\ ~ctxs["sync"].inBlock
  /\ ctxs["sync"].inTransaction
  /\ ctxs["sync"].callIndexStack = <<"0", "1">>
  /\ ctxs["sync"].blockLogIndex = 1
  /\ ctxs["sync"].totalOrderingCounter = 3

\* the operations that record an event of the open transaction
RecordOps ==
  {"RecordTrxFrom", "RecordCallParams", "RecordCallWithoutCode", "RecordCallFailed",
   "RecordCallReverted", "RecordKeccak", "RecordGasRefund", "RecordGasConsume",
   "RecordStorageChange", "RecordBalanceChange", "RecordLog", "RecordSuicide",
   "RecordNewAccount", "RecordCodeChange", "RecordNonceChange"}

\* C15: each of the Record* operations fails fatally when invoked on an enabled
\* context with no open transaction, for every argument value (a zero gas
\* delta and an ignored reason tag included).
C15_RecordOutsideTransactionFatal ==
  [][(/\ fatal = ""
      /\ last'.c = "sync"
      /\ last'.op \in RecordOps
      /\ ~ctxs["sync"].inTransaction)
     => fatal' # ""]_vars

\* C16: StartCall, EndCall and EndFailedCall invoked on an enabled context whose
\* inTransaction is false are fatal, write no EVM_RUN_CALL / EVM_END_CALL line,
\* allocate no call index and do not advance the ordering counter.
C16_CallOutsideTransactionFatal ==
  [][(/\ fatal = ""
      /\ last'.c = "sync"
      /\ last'.op \in {"StartCall", "EndCall", "EndFailedCall"}
      /\ ~ctxs["sync"].inTransaction)
     => /\ fatal' # ""
        /\ \A i \in 1..Len(sink') : sink'[i].tag \notin {"EVM_RUN_CALL", "EVM_END_CALL"}
        /\ ctxs'["sync"].nextCallIndex = ctxs["sync"].nextCallIndex
        /\ ctxs'["sync"].totalOrderingCounter = ctxs["sync"].totalOrderingCounter]_vars

\* C17: inside an open transaction RecordGasConsume(old, consumed, reason)
\* writes no line when consumed is 0 or reason is the ignored reason, and
\* otherwise exactly one GAS_CHANGE line with old value old, new value
\* old - consumed in unsigned word arithmetic, reason reason and, as sequence
\* number, the counter advanced by one.
C17_GasConsumeLine ==
  (fatal = "" /\ ctxs["sync"].inTransaction) =>
    \A old \in GasVals, consumed \in GasVals,
       reason \in GasReasons \cup {FailedExecutionGasChangeReason} :
      LET r == RecordGasConsume(Run("sync"), old, consumed, reason)
      IN  /\ r.fatal = ""
          /\ IF consumed = 0 \/ reason = IgnoredGasChangeReason
               THEN r.lines = <<>>
             ELSE /\ Len(r.lines) = 1
                  /\ r.lines[1].tag = "GAS_CHANGE"
                  /\ r.lines[1].a = old
                  /\ r.lines[1].b \in 0..(WordMod - 1)
                  /\ (r.lines[1].b + consumed) % WordMod = old
                  /\ r.lines[1].s = reason
                  /\ r.lines[1].ord = (ctxs["sync"].totalOrderingCounter + 1) % WordMod
                  /\ r.x.totalOrderingCounter = r.lines[1].ord

\* RecordGasConsume(0, 1, reason) wrote the wrapped new value inside a call
C17_Witness ==
  /\ fatal = ""
  /\ last = [op |-> "RecordGasConsume", c |-> "sync"]
  /\ ctxs["sync"].inTransaction
  /\ Len(sink) = 1
  /\ sink[1].tag = "GAS_CHANGE"
  /\ sink[1].idx = "1"
  /\ sink[1].a = 0
  /\ sink[1].b = WordMod - 1
  /\ sink[1].ord = 3

\* C18: inside an open transaction RecordSuicide(addr, suicided, balance) with
\* balance # 0 writes exactly two lines, SUICIDE_CHANGE then a BALANCE_CHANGE for
\* the same address with old value balance, new value 0 and reason
\* suicide_withdraw, and advances the ordering counter by 1; with balance = 0 it
\* writes exactly one line, SUICIDE_CHANGE, and does not advance the counter.
C18_SuicideLines ==
  (fatal = "" /\ ctxs["sync"].inTransaction) =>
    \A addr \in Addrs, suicided \in BOOLEAN, balance \in GasVals :
      LET r == RecordSuicide(Run("sync"), addr, suicided, balance)
          before == ctxs["sync"].totalOrderingCounter
      IN  /\ r.fatal = ""
          /\ r.lines[1].tag = "SUICIDE_CHANGE"
          /\ r.lines[1].addr = addr
          /\ IF balance # 0
               THEN /\ Len(r.lines) = 2
                    /\ r.lines[2].tag = "BALANCE_CHANGE"
                    /\ r.lines[2].addr = addr
                    /\ r.lines[2].a = balance
                    /\ r.lines[2].b = 0
                    /\ r.lines[2].s = "suicide_withdraw"
                    /\ r.x.totalOrderingCounter = (before + 1) % WordMod
             ELSE /\ Len(r.lines) = 1
                  /\ r.x.totalOrderingCounter = before

\* RecordSuicide of an account with a balance wrote its two lines
C18_Witness ==
  /\ fatal = ""
  /\ last = [op |-> "RecordSuicide", c |-> "sync"]
  /\ ctxs["sync"].inTransaction
  /\ Tags(sink) = <<"SUICIDE_CHANGE", "BALANCE_CHANGE">>
  /\ sink[2].a = 1
  /\ sink[2].ord = ctxs["sync"].totalOrderingCounter

\* the hand-written sequence EndFailedCall stands for
ManualFailedCall(s, gasLeft, reverted, reason) ==
  LET t == RecordCallFailed(s, gasLeft, reason)
  IN  IF reverted THEN EndCall(RecordCallReverted(t), gasLeft, "")
      ELSE EndCall(RecordGasConsume(t, gasLeft, gasLeft, FailedExecutionGasChangeReason),
                   0, "")

\* C19: from any state with an open call, EndFailedCall(gasLeft, reverted,
\* reason) produces the same lines and the same resulting context state as
\* RecordCallFailed(gasLeft, reason), then RecordCallReverted() and
\* EndCall(gasLeft, empty) when reverted, or RecordGasConsume(gasLeft, gasLeft,
\* failed-execution reason) and EndCall(0, empty) when not reverted.
C19_EndFailedCallIsManualSequence ==
  (fatal = "" /\ Len(ctxs["sync"].callIndexStack) >= 2) =>
    \A gasLeft \in GasVals, reverted \in BOOLEAN :
      LET e == EndFailedCall(Run("sync"), gasLeft, reverted, "out of gas")
          m == ManualFailedCall(Run("sync"), gasLeft, reverted, "out of gas")
      IN  /\ e.lines = m.lines
          /\ e.x = m.x
          /\ e.fatal = m.fatal

\* EndFailedCall closed a call that failed without reverting, with gas left:
\* the failure line, the gas change to 0 and the call end
C19_Witness ==
  /\ fatal = ""
  /\ last = [op |-> "EndFailedCall", c |-> "sync"]
  /\ Tags(sink) = <<"EVM_CALL_FAILED", "GAS_CHANGE", "EVM_END_CALL">>
  /\ sink[1].idx = "1"
  /\ sink[2].a = 1
  /\ sink[2].b = 0
  /\ sink[3].a = 0
  /\ ctxs["sync"].inTransaction
  /\ ctxs["sync"].activeCallIndex = "0"

\* C20: EndCall closes the innermost open call: its EVM_END_CALL line carries
\* the index of the call opened by the most recent unmatched StartCall, and
\* afterwards activeCallIndex is the index of the enclosing call ("0" when the
\* closed call was top-level); EndCall invoked when only the root entry "0" is
\* on the stack is fatal and writes no line.
C20_EndCallClosesInnermost ==
  [][(fatal = "" /\ last' = [op |-> "EndCall", c |-> "sync"])
     => LET open == gOpen["sync"]
        IN  /\ open # <<>> =>
                 /\ fatal' = ""
                 /\ Len(sink') = 1
                 /\ sink'[1].tag = "EVM_END_CALL"
                 /\ sink'[1].idx = open[Len(open)]
                 /\ ctxs'["sync"].activeCallIndex =
                      IF Len(open) = 1 THEN "0" ELSE open[Len(open) - 1]
            /\ ctxs["sync"].callIndexStack = <<"0">> =>
                 /\ fatal' # ""
                 /\ sink' = <<>>]_vars

\* EndCall closed the second call, opened inside the first, of a transaction
C20_Witness ==
  /\ fatal = ""
  /\ last = [op |-> "EndCall", c |-> "sync"]
  /\ ctxs["sync"].inTransaction
  /\ Len(sink) = 1
  /\ sink[1].tag = "EVM_END_CALL"
  /\ sink[1].idx = "2"
  /\ ctxs["sync"].activeCallIndex = "1"
  /\ gOpen["sync"] = <<"1">>

\* C21: RecordGenesisBlock on an enabled context with no block and no
\* transaction open writes BEGIN_BLOCK, BEGIN_APPLY_TRX, TRX_FROM, the lines of
\* the allocation callback, END_APPLY_TRX, FINALIZE_BLOCK, END_BLOCK in that
\* order and returns with the context idle (inBlock and inTransaction false,
\* counters reset); called while a block is open it is fatal and writes nothing.
C21_GenesisBlockSequence ==
  [][(fatal = "" /\ last' = [op |-> "RecordGenesisBlock", c |-> "sync"])
     => /\ (~ctxs["sync"].inBlock /\ ~ctxs["sync"].inTransaction) =>
             /\ fatal' = ""
             /\ Tags(sink') \in
                  {<<"BEGIN_BLOCK", "BEGIN_APPLY_TRX", "TRX_FROM",
                     "END_APPLY_TRX", "FINALIZE_BLOCK", "END_BLOCK">>,
                   <<"BEGIN_BLOCK", "BEGIN_APPLY_TRX", "TRX_FROM", "CREATED_ACCOUNT",
                     "END_APPLY_TRX", "FINALIZE_BLOCK", "END_BLOCK">>}
             /\ ~ctxs'["sync"].inBlock
             /\ ~ctxs'["sync"].inTransaction
             /\ ctxs'["sync"].totalOrderingCounter = 0
             /\ ctxs'["sync"].blockLogIndex = 0
             /\ ctxs'["sync"].nextCallIndex = 0
        /\ ctxs["sync"].inBlock =>
             /\ fatal' # ""
             /\ sink' = <<>>]_vars

\* the genesis block was recorded, with an account from the allocation callback
C21_Witness ==
  /\ fatal = ""
  /\ last = [op |-> "RecordGenesisBlock", c |-> "sync"]
  /\ Len(sink) = 7
  /\ sink[4].tag = "CREATED_ACCOUNT"
  /\ sink[7].tag = "END_BLOCK"
  /\ ctxs["sync"].seenBlock
  /\ ~ctxs["sync"].inBlock

\* the lines of a run that carry tag
WithTag(lines, tag) == {i \in 1..Len(lines) : lines[i].tag = tag}

\* C22, as claimed: EndFailedCall with reverted = true writes no GAS_CHANGE line
\* and the EVM_END_CALL line it writes carries gasLeft = 0, for every input
\* gasLeft.
C22_RevertedEndsWithZeroGas ==
  (fatal = "" /\ ctxs["sync"].inTransaction /\ Len(ctxs["sync"].callIndexStack) >= 2) =>
    \A gasLeft \in GasVals :
      LET r == EndFailedCall(Run("sync"), gasLeft, TRUE, "out of gas")
      IN  /\ r.fatal = ""
          /\ WithTag(r.lines, "GAS_CHANGE") = {}
          /\ \A i \in WithTag(r.lines, "EVM_END_CALL") : r.lines[i].a = 0

\* C22, amended: EndFailedCall with reverted = true writes no GAS_CHANGE line
\* and the one EVM_END_CALL line it writes carries the input gasLeft unchanged,
\* for every input gasLeft.
C22_RevertedKeepsGasLeft ==
  (fatal = "" /\ ctxs["sync"].inTransaction /\ Len(ctxs["sync"].callIndexStack) >= 2) =>
    \A gasLeft \in GasVals :
      LET r == EndFailedCall(Run("sync"), gasLeft, TRUE, "out of gas")
      IN  /\ r.fatal = ""
          /\ WithTag(r.lines, "GAS_CHANGE") = {}
          /\ WithTag(r.lines, "EVM_END_CALL") = {Len(r.lines)}
          /\ r.lines[Len(r.lines)].a = gasLeft

\* a reverted call was closed by EndFailedCall with gas left
C22_Witness ==
  /\ fatal = ""
  /\ last = [op |-> "EndFailedCall", c |-> "sync"]
  /\ ctxs["sync"].inTransaction
  /\ Tags(sink) = <<"EVM_CALL_FAILED", "EVM_REVERTED", "EVM_END_CALL">>
  /\ sink[1].a = 1
  /\ sink[3].a = 1

\* C23: CancelBlock called while a block scope is open, with or without a
\* transaction and calls still open inside it, writes exactly one line,
\* CANCEL_BLOCK, and leaves the context in the state EndBlock would: inBlock and
\* inTransaction false, blockLogIndex, totalOrderingCounter and nextCallIndex
\* 0, call stack ["0"].
C23_CancelOpenBlock ==
  [][(/\ fatal = ""
      /\ last' = [op |-> "CancelBlock", c |-> "sync"]
      /\ ctxs["sync"].inBlock)
     => /\ fatal' = ""
        /\ Tags(sink') = <<"CANCEL_BLOCK">>
        /\ ~ctxs'["sync"].inBlock
        /\ ~ctxs'["sync"].inTransaction
        /\ ctxs'["sync"].blockLogIndex = 0
        /\ ctxs'["sync"].totalOrderingCounter = 0
        /\ ctxs'["sync"].nextCallIndex = 0
        /\ ctxs'["sync"].callIndexStack = <<"0">>
        /\ \A n \in BlockNums :
             ctxs'["sync"] = EndBlock(Run("sync"), n, 100).x]_vars

\* CancelBlock closed a block whose transaction was still open
C23_Witness ==
  /\ fatal = ""
  /\ last = [op |-> "CancelBlock", c |-> "sync"]
  /\ gPre = [inBlock |-> TRUE, inTransaction |-> TRUE]
  /\ Tags(sink) = <<"CANCEL_BLOCK">>
  /\ ~ctxs["sync"].inBlock
  /\ ~ctxs["sync"].inTransaction

\* C24: EndBlock called while a transaction, and any number of calls inside it,
\* is still open closes the transaction scope too: afterwards inTransaction is
\* false, the call stack is ["0"], nextCallIndex is 0, and a following
\* StartBlock then StartTransaction is accepted without failure.
C24_EndBlockClosesTransaction ==
  [][(/\ fatal = ""
      /\ last' = [op |-> "EndBlock", c |-> "sync"]
      /\ ctxs["sync"].inBlock
      /\ ctxs["sync"].inTransaction)
     => /\ fatal' = ""
        /\ ~ctxs'["sync"].inTransaction
        /\ ctxs'["sync"].callIndexStack = <<"0">>
        /\ ctxs'["sync"].nextCallIndex = 0
        /\ \A n \in BlockNums, to \in Addrs \cup {"."} :
             LET b == StartBlock(Enter(FALSE, ctxs'["sync"]), n)
                 t == StartTransaction(Enter(FALSE, b.x), "0xAA", to, 0)
             IN  /\ b.fatal = ""
                 /\ t.fatal = ""
                 /\ t.x.inBlock
                 /\ t.x.inTransaction]_vars

\* EndBlock ended a block whose transaction was still open
C24_Witness ==
  /\ fatal = ""
  /\ last = [op |-> "EndBlock", c |-> "sync"]
  /\ gPre = [inBlock |-> TRUE, inTransaction |-> TRUE]
  /\ Tags(sink) = <<"END_BLOCK">>
  /\ ~ctxs["sync"].inTransaction
  /\ ctxs["sync"].callIndexStack = <<"0">>

\* C25: the log index written by RecordLog is per block: within one block the
\* n-th RecordLog, counted across the transactions of the block, writes log
\* index n-1, EndTransaction does not reset it, and the first RecordLog after
\* the block was closed by EndBlock / CancelBlock writes index 0.
C25_LogIndexPerBlock ==
  (fatal = "" /\ ~hist /\ last.op = "RecordLog") =>
    /\ Len(sink) = 1
    /\ sink[1].tag = "ADD_LOG"
    /\ sink[1].s = FormatUint(gLogs[last.c] - 1)

\* C26: a transaction scope is only ever open inside a block scope: in every
\* state of an enabled context reachable through accepted operations,
\* inTransaction implies inBlock.
C26_TransactionInsideBlock ==
  fatal = "" => (ctxs["sync"].inTransaction => ctxs["sync"].inBlock)

\* C27: when executeMsg or ApplyMessage returns on an enabled context, the
\* transaction it started has been ended: inTransaction is false
C27_DriversEndTransaction ==
  (fatal = "" /\ last.c = "sync" /\ last.op \in {"executeMsg", "ApplyMessage"})
    => ~ctxs["sync"].inTransaction

\* C28: with the tracing context disabled and BlockProgressEnabled set,
\* Process of one block does not fail, writes the single line FINALIZE_BLOCK
\* through the sync context and leaves every field of every context as it was,
\* whether or not a block scope is open.
C28_BlockProgressOnlyFinalizes ==
  [][(fatal = "" /\ MaybeSyncContext = "noop" /\ flags.BlockProgressEnabled
        /\ last'.op \in {"Process", "ProcessBlockProgress", "ProcessDisabled"})
      => /\ fatal' = ""
         /\ last' = [op |-> "ProcessBlockProgress", c |-> "sync"]
         /\ Tags(sink') = <<"FINALIZE_BLOCK">>
         /\ ctxs' = ctxs]_vars

C28_Witness ==
  /\ fatal = ""
  /\ MaybeSyncContext = "noop"
  /\ flags.BlockProgressEnabled
  /\ last = [op |-> "ProcessBlockProgress", c |-> "sync"]
  /\ gPre = [inBlock |-> FALSE, inTransaction |-> FALSE]
  /\ Tags(sink) = <<"FINALIZE_BLOCK">>
  /\ ~ctxs["sync"].inBlock

\* C29: InitVersion and RecordTrxPool are accepted by an enabled context in
\* every scope state, write exactly one line and leave every field of the
\* context (flags, counters, call stack) unchanged.
C29_ScopeIndependent ==
  [][(fatal = "" /\ last'.c = "sync" /\ last'.op \in {"InitVersion", "RecordTrxPool"})
      => /\ fatal' = ""
         /\ Len(sink') = 1
         /\ sink'[1].tag = (IF last'.op = "InitVersion" THEN "INIT" ELSE "TRX_ENTER_POOL")
         /\ sink'[1].ord = -1
         /\ ctxs' = ctxs]_vars

\* RecordTrxPool accepted inside a nested call, and outside every scope
C29_Witness ==
  /\ fatal = ""
  /\ last = [op |-> "RecordTrxPool", c |-> "sync"]
  /\ Tags(sink) = <<"TRX_ENTER_POOL">>
  /\ ctxs["sync"].inBlock
  /\ ctxs["sync"].inTransaction
  /\ Len(ctxs["sync"].callIndexStack) = 3
  /\ gOpen["sync"] = <<"1", "2">>

\* the operations C30 is about
ScopedOps ==
  {"StartBlock", "EndBlock", "StartTransactionRaw", "EndTransaction", "EndCall",
   "EndFailedCall"} \cup RecordOps

\* C30: when one of these operations fails fatally on an enabled context, it
\* has written no line and every field of the context has the value it had
\* before the call.
C30_FatalBeforeEffect ==
  [][(fatal = "" /\ fatal' # "" /\ last'.c = "sync" /\ last'.op \in ScopedOps)
      => sink' = <<>> /\ ctxs' = ctxs]_vars

\* the runs of the suppressed calls on the enabled context: a zero refund, a
\* zero or ignored gas consumption, an ignored balance change
SuppressedRuns ==
  {RecordGasRefund(Run("sync"), old, 0) : old \in GasVals}
    \cup {RecordGasConsume(Run("sync"), old, 0, reason) :
            old \in GasVals, reason \in GasReasons \cup {FailedExecutionGasChangeReason}}
    \cup {RecordGasConsume(Run("sync"), old, consumed, IgnoredGasChangeReason) :
            old \in GasVals, consumed \in GasVals}
    \cup {RecordBalanceChange(Run("sync"), a, old, new, IgnoredBalanceChangeReason) :
            a \in Addrs, old \in GasVals, new \in GasVals}

\* C31: inside an open transaction a suppressed call writes no line and leaves
\* totalOrderingCounter and every other field unchanged, so the ordered line
\* that follows carries the number it would have carried without the call.
C31_SuppressedTakesNoNumber ==
  (fatal = "" /\ ctxs["sync"].inTransaction) =>
    \A r \in SuppressedRuns :
      /\ r.fatal = ""
      /\ r.lines = <<>>
      /\ r.x = ctxs["sync"]
      /\ \A a \in Addrs :
           RecordStorageChange(r, a, "0xCC", 0, 1).lines
             = RecordStorageChange(Run("sync"), a, "0xCC", 0, 1).lines

\* an ignored balance change accepted after a sequence number was given out
C31_Witness ==
  /\ fatal = ""
  /\ last = [op |-> "RecordBalanceChange", c |-> "sync"]
  /\ gPre.inTransaction
  /\ ctxs["sync"].inTransaction
  /\ ctxs["sync"].totalOrderingCounter >= 2
  /\ sink = <<>>

\* the number a call index was formatted from
CallNumber(i) == CHOOSE n \in 0..(WordMod - 1) : FormatUint(n) = i

\* C32: in every state of the enabled context reached without a fatal failure,
\* activeCallIndex is the top of the call-index stack, the elements of the
\* stack increase strictly from bottom to top, and none exceeds nextCallIndex.
C32_CallStackConsistent ==
  fatal = "" =>
    LET x == ctxs["sync"]
        stack == x.callIndexStack
    IN  /\ ~StackEmpty(stack)
        /\ x.activeCallIndex = Peek(stack)
        /\ \A k \in 1..Len(stack) :
             /\ \E n \in 0..(WordMod - 1) : FormatUint(n) = stack[k]
             /\ CallNumber(stack[k]) <= x.nextCallIndex
             /\ k > 1 => CallNumber(stack[k - 1]) < CallNumber(stack[k])

\* a second call opened after the first one was closed: the stack skips "1"
C32_Witness ==
  /\ fatal = ""
  /\ last = [op |-> "StartCall", c |-> "sync"]
  /\ ctxs["sync"].inTransaction
  /\ ctxs["sync"].callIndexStack = <<"0", "2">>
  /\ ctxs["sync"].activeCallIndex = "2"
  /\ ctxs["sync"].nextCallIndex = 2

\* C33: FlushTransaction on the disabled (nil) destination returns without
\* touching the buffering context it was given: every buffer keeps its lines and
\* no field of any context is reset, so the lines recorded afterwards are added
\* to the ones already held.
C33_DisabledFlushKeepsBuffer ==
  [][(fatal = "" /\ last' = [op |-> "FlushTransaction", c |-> "noop"])
      => /\ fatal' = ""
         /\ buffer' = buffer
         /\ ctxs' = ctxs
         /\ sink' = <<>>]_vars

\* a flush into the disabled context that left a full buffer and an open call
C33_Witness ==
  /\ fatal = ""
  /\ last = [op |-> "FlushTransaction", c |-> "noop"]
  /\ Len(buffer["tx1"]) = MaxBuf
  /\ ctxs["tx1"].inTransaction
  /\ ctxs["tx1"].callIndexStack = <<"0", "1">>
  /\ ctxs["tx1"].totalOrderingCounter = 2

====
